---- MODULE Spec2Model ----
(***************************************************************************)
(* Model of sentry/src/transports/ureq.rs: the ureq based HTTP transport.  *)
(*                                                                         *)
(* Three specifications share the definitions below:                       *)
(*   SpecNew      construction (new / with_agent -> new_internal)          *)
(*   SpecDeliver  the delivery closure and its Rate Limiter updates        *)
(*   Spec         the transport at run time: producers, worker, flush      *)
(*                                                                         *)
(* TransportThread (super::thread) and RateLimiter are not part of the     *)
(* source file; they are modelled from the design document and are marked  *)
(* "from the design" below.                                                *)
(***************************************************************************)
EXTENDS Integers, Sequences, FiniteSets, TLC

\* ------------------------------------------------------------------------
\* Bounds
\* ------------------------------------------------------------------------
MaxEnvelopes == 3
QueueCap == 2
MaxTime == 1

\* ------------------------------------------------------------------------
\* Program constants
\* ------------------------------------------------------------------------
TooManyRequests == 429
DEFAULT_RETRY_AFTER == 60

None == "None"
Producers == {"p1", "p2"}
Categories == {"any", "error", "transaction"}
Wildcard == "any"

VARIABLES
    options,          \* ClientOptions handed to the constructor
    agentArg,         \* the Option<Agent> handed to new_internal
    features,         \* cargo features of the build: subset of {"native-tls","rustls"}
    phase,            \* "init" | "built" | "panicked" (construction)
    agent,            \* the ureq Agent captured by the delivery closure
    url,              \* dsn.envelope_api_url()
    auth,             \* dsn.to_auth(user_agent)
    invalidLogs,      \* number of "invalid proxy" diagnostics emitted
    queue,            \* pending envelopes of the TransportThread
    nextId,           \* id of the next envelope a producer hands over
    accepted,         \* number of envelopes accepted into the queue
    dropped,          \* ids of envelopes rejected at capacity
    pc,               \* worker: "idle" | "posting" | "panicked"
    inflight,         \* envelopes whose POST has been issued and not yet returned
    posts,            \* log of the POSTs issued: [env, url, auth, agent]
    done,             \* number of envelopes whose delivery closure returned
    rl,               \* RateLimiter: category -> reset instant (0: none)
    now,              \* clock
    last,             \* outcome of the closure that returned last
    flushPc,          \* "none" | "waiting": a caller blocked in flush
    flushKind,        \* "flush" | "shutdown": the facade call that is blocked
    flushTarget,      \* number of envelopes accepted when flush was called
    lastFlush,        \* what the last flush/shutdown call returned
    shutdownReturned  \* TRUE once a shutdown call has returned

ctorVars == <<options, agentArg, features, phase, agent, url, auth,
              invalidLogs>>
workerVars == <<queue, nextId, accepted, dropped, pc, inflight, posts, done>>
flushVars == <<flushPc, flushKind, flushTarget, lastFlush, shutdownReturned>>
vars == <<options, agentArg, features, phase, agent, url, auth, invalidLogs,
          queue, nextId, accepted, dropped, pc, inflight, posts, done,
          rl, now, last, flushPc, flushKind, flushTarget, lastFlush,
          shutdownReturned>>

\* ------------------------------------------------------------------------
\* Construction: new, with_agent, new_internal
\* ------------------------------------------------------------------------
HttpsProxyOk == "https://secure-proxy:3129"
HttpProxyOk == "http://proxy:3128"
ProxyBad == "not a proxy"
ValidProxyStrings == {HttpsProxyOk, HttpProxyOk}

DsnHttp == "http://key@host/1"
DsnHttps == "https://key@host/1"

\* Dsn::scheme
Scheme(dsn) == IF dsn = DsnHttps THEN "Https" ELSE "Http"

\* ureq::Proxy::new: Ok(proxy) for a well-formed proxy string, Err otherwise
ProxyNew(s) ==
    IF s \in ValidProxyStrings THEN [ok |-> TRUE, proxy |-> s]
                               ELSE [ok |-> FALSE, proxy |-> None]

\* the match with a rejected proxy string handed to the builder all the same
SelectProxyKeepInvalid(scheme, http_proxy, https_proxy) ==
    IF scheme = "Https" /\ https_proxy # None
    THEN [maybe_proxy |-> https_proxy,
          logs |-> IF ProxyNew(https_proxy).ok THEN 0 ELSE 1]
    ELSE IF http_proxy # None
    THEN [maybe_proxy |-> http_proxy,
          logs |-> IF ProxyNew(http_proxy).ok THEN 0 ELSE 1]
    ELSE [maybe_proxy |-> None, logs |-> 0]

\* the match on (scheme, http_proxy, https_proxy)
SelectProxy(scheme, http_proxy, https_proxy) ==
    IF scheme = "Https" /\ https_proxy # None
    THEN LET r == ProxyNew(https_proxy)
         IN  IF r.ok THEN [maybe_proxy |-> r.proxy, logs |-> 0]
                     ELSE [maybe_proxy |-> None, logs |-> 1]
    ELSE IF http_proxy # None
    THEN LET r == ProxyNew(http_proxy)
         IN  IF r.ok THEN [maybe_proxy |-> r.proxy, logs |-> 0]
                     ELSE [maybe_proxy |-> None, logs |-> 1]
    ELSE [maybe_proxy |-> None, logs |-> 0]

\* the TLS configuration with the sense of the option inverted
TlsConfigInverted(feats, accept_invalid_certs) ==
    IF "rustls" \in feats
    THEN [provider |-> "Rustls", disable_verification |-> ~accept_invalid_certs]
    ELSE IF "native-tls" \in feats
    THEN [provider |-> "NativeTls",
          disable_verification |-> ~accept_invalid_certs]
    ELSE [provider |-> "default", disable_verification |-> FALSE]

\* the two cfg(feature) blocks that set the TLS configuration; without a TLS
\* feature the builder keeps its default, which verifies certificates
TlsConfig(feats, accept_invalid_certs) ==
    IF "rustls" \in feats
    THEN [provider |-> "Rustls", disable_verification |-> accept_invalid_certs]
    ELSE IF "native-tls" \in feats
    THEN [provider |-> "NativeTls", disable_verification |-> accept_invalid_certs]
    ELSE [provider |-> "default", disable_verification |-> FALSE]

\* the closure of agent.unwrap_or_else
BuildAgent(opts, feats) ==
    LET sel == SelectProxy(Scheme(opts.dsn), opts.http_proxy, opts.https_proxy)
    IN  [agent |-> [supplied |-> FALSE,
                    tls |-> TlsConfig(feats, opts.accept_invalid_certs),
                    proxy |-> sel.maybe_proxy],
         logs |-> sel.logs]

NoAgent == [supplied |-> FALSE,
            tls |-> [provider |-> "default", disable_verification |-> FALSE],
            proxy |-> None]

\* agents a caller may hand to with_agent
SuppliedAgents ==
    {[supplied |-> TRUE,
      tls |-> [provider |-> "default", disable_verification |-> dv],
      proxy |-> "http://callers-proxy:8080"] : dv \in BOOLEAN}

\* Option<Agent>
NoneAgent == [some |-> FALSE, v |-> NoAgent]
SomeAgent(a) == [some |-> TRUE, v |-> a]

\* construction that configures the agent from the options even when the
\* caller supplied one
new_internalReconfigures(opts, agentOpt, feats) ==
    IF opts.dsn = None
    THEN [phase |-> "panicked", agent |-> NoAgent, logs |-> 0,
          url |-> None, auth |-> None]
    ELSE LET b == BuildAgent(opts, feats)
             built == IF agentOpt.some
                      THEN [agent |-> [b.agent EXCEPT !.supplied = TRUE],
                            logs |-> b.logs]
                      ELSE b
         IN  [phase |-> "built", agent |-> built.agent, logs |-> built.logs,
              url |-> <<"envelope_api_url", opts.dsn>>,
              auth |-> <<"to_auth", opts.dsn, opts.user_agent>>]

\* construction that goes on without a DSN
new_internalWithoutDsn(opts, agentOpt, feats) ==
    LET built == IF agentOpt.some
                 THEN [agent |-> agentOpt.v, logs |-> 0]
                 ELSE BuildAgent(opts, feats)
    IN  [phase |-> "built", agent |-> built.agent, logs |-> built.logs,
         url |-> <<"envelope_api_url", opts.dsn>>,
         auth |-> <<"to_auth", opts.dsn, opts.user_agent>>]

\* new_internal: the result of construction
new_internal(opts, agentOpt, feats) ==
    IF opts.dsn = None
    THEN [phase |-> "panicked", agent |-> NoAgent, logs |-> 0,
          url |-> None, auth |-> None]
    ELSE LET built == IF agentOpt.some
                      THEN [agent |-> agentOpt.v, logs |-> 0]
                      ELSE BuildAgent(opts, feats)
         IN  [phase |-> "built", agent |-> built.agent, logs |-> built.logs,
              url |-> <<"envelope_api_url", opts.dsn>>,
              auth |-> <<"to_auth", opts.dsn, opts.user_agent>>]

OptionSet ==
    [dsn : {None, DsnHttp, DsnHttps},
     http_proxy : {None, ProxyBad, HttpProxyOk},
     https_proxy : {None, ProxyBad, HttpsProxyOk},
     accept_invalid_certs : BOOLEAN,
     user_agent : {"sentry.rust/0"}]

FeatureSets == SUBSET {"native-tls", "rustls"}

Construct(agentOpt) ==
    /\ phase = "init"
    /\ LET r == new_internal(options, agentOpt, features)
       IN  /\ phase' = r.phase
           /\ agent' = r.agent
           /\ invalidLogs' = r.logs
           /\ url' = r.url
           /\ auth' = r.auth
    /\ agentArg' = agentOpt
    /\ UNCHANGED <<options, features>>
    /\ UNCHANGED workerVars
    /\ UNCHANGED flushVars
    /\ UNCHANGED <<rl, now, last>>

\* UreqHttpTransport::new
new == Construct(NoneAgent)

\* UreqHttpTransport::with_agent
with_agent == \E a \in SuppliedAgents : Construct(SomeAgent(a))

\* ------------------------------------------------------------------------
\* RateLimiter (from the design)
\* ------------------------------------------------------------------------
RateLimiterNew == [c \in Categories |-> 0]

\* a category is limited iff the current time is before its reset instant
IsLimited(r, c, t) == t < r[c]

RECURSIVE MergeEntries(_, _, _)
MergeEntries(r, entries, t) ==
    IF entries = <<>> THEN r
    ELSE LET e == Head(entries)
             r1 == [c \in Categories |->
                      IF c \in e.cats THEN t + e.secs ELSE r[c]]
         IN  MergeEntries(r1, Tail(entries), t)

\* each parsed entry sets the category's reset instant to now + duration
update_from_sentry_header(r, header, t) == MergeEntries(r, header, t)

\* seconds: now + delay; HTTP-date: that instant
update_from_retry_after(r, header, t) ==
    [r EXCEPT ![Wildcard] = IF header.kind = "secs" THEN t + header.n
                                                    ELSE header.at]

\* the fixed default backoff on the wildcard category
update_from_429(r, t) == [r EXCEPT ![Wildcard] = t + DEFAULT_RETRY_AFTER]

\* ------------------------------------------------------------------------
\* Responses
\* ------------------------------------------------------------------------
\* a header is absent, present with bytes that are not visible ASCII
\* ("bytes"), or present with a string value ("str")
HAbsent == [st |-> "absent", v |-> <<>>]
HBytes == [st |-> "bytes", v |-> <<>>]
HStr(v) == [st |-> "str", v |-> v]

\* x-sentry-rate-limits: 60:error, 120:transaction
LimitsExample == <<[secs |-> 60, cats |-> {"error"}],
                   [secs |-> 120, cats |-> {"transaction"}]>>
\* a string without any parsable limit entry
LimitsEmpty == <<>>

RetrySecs == [kind |-> "secs", n |-> 30, at |-> 0]
RetryDate == [kind |-> "date", n |-> 0, at |-> 45]

SentryHeaders == {HAbsent, HBytes, HStr(LimitsExample), HStr(LimitsEmpty)}
RetryHeaders == {HAbsent, HBytes, HStr(RetrySecs), HStr(RetryDate)}
Statuses == {200, TooManyRequests, 500}

Responses ==
    [status : Statuses, sentry : SentryHeaders, retry : RetryHeaders,
     bodyOk : BOOLEAN]

\* the responses the run-time specification draws from
PlainResponses ==
    {r \in Responses : r.sentry = HAbsent /\ r.retry = HAbsent /\ r.bodyOk
                       /\ r.status \in {200, TooManyRequests}}

NoResponse == [status |-> 0, sentry |-> HAbsent, retry |-> HAbsent,
               bodyOk |-> TRUE]

Header(response, key) ==
    IF key = "x-sentry-rate-limits" THEN response.sentry ELSE response.retry

\* header_str that reads a rate-limit value lossily instead of giving up
header_strLossy(response, key) ==
    LET h == Header(response, key)
    IN  IF h.st = "str" \/ (h.st = "bytes" /\ key = "x-sentry-rate-limits")
        THEN [some |-> TRUE, v |-> h.v]
        ELSE [some |-> FALSE, v |-> <<>>]

\* header_str: response.headers().get(key)?.to_str().ok()
header_str(response, key) ==
    LET h == Header(response, key)
    IN  IF h.st = "str" THEN [some |-> TRUE, v |-> h.v]
                        ELSE [some |-> FALSE, v |-> <<>>]

\* ------------------------------------------------------------------------
\* The delivery closure
\* ------------------------------------------------------------------------
\* the chain without "else": every matching update is applied
UpdateRateLimiterNoElse(r, response, t) ==
    LET sentry_header == header_str(response, "x-sentry-rate-limits")
        retry_after == header_str(response, "retry-after")
        r1 == IF sentry_header.some
              THEN update_from_sentry_header(r, sentry_header.v, t) ELSE r
        c1 == IF sentry_header.some
              THEN <<"update_from_sentry_header">> ELSE <<>>
        r2 == IF retry_after.some
              THEN update_from_retry_after(r1, retry_after.v, t) ELSE r1
        c2 == IF retry_after.some
              THEN Append(c1, "update_from_retry_after") ELSE c1
        r3 == IF response.status = TooManyRequests
              THEN update_from_429(r2, t) ELSE r2
        c3 == IF response.status = TooManyRequests
              THEN Append(c2, "update_from_429") ELSE c2
    IN  [rl |-> r3, calls |-> c3]

\* the chain with the 429 default taken only for a successful status
UpdateRateLimiterNo429(r, response, t) ==
    LET sentry_header == header_str(response, "x-sentry-rate-limits")
        retry_after == header_str(response, "retry-after")
    IN  IF sentry_header.some
        THEN [rl |-> update_from_sentry_header(r, sentry_header.v, t),
              calls |-> <<"update_from_sentry_header">>]
        ELSE IF retry_after.some
        THEN [rl |-> update_from_retry_after(r, retry_after.v, t),
              calls |-> <<"update_from_retry_after">>]
        ELSE [rl |-> r, calls |-> <<>>]

\* the chain with the status checked before the retry-after header
UpdateRateLimiterStatusFirst(r, response, t) ==
    LET sentry_header == header_str(response, "x-sentry-rate-limits")
        retry_after == header_str(response, "retry-after")
    IN  IF sentry_header.some
        THEN [rl |-> update_from_sentry_header(r, sentry_header.v, t),
              calls |-> <<"update_from_sentry_header">>]
        ELSE IF response.status = TooManyRequests
        THEN [rl |-> update_from_429(r, t), calls |-> <<"update_from_429">>]
        ELSE IF retry_after.some
        THEN [rl |-> update_from_retry_after(r, retry_after.v, t),
              calls |-> <<"update_from_retry_after">>]
        ELSE [rl |-> r, calls |-> <<>>]

\* the chain with the default backoff taken for every error status
UpdateRateLimiterAnyError(r, response, t) ==
    LET sentry_header == header_str(response, "x-sentry-rate-limits")
        retry_after == header_str(response, "retry-after")
    IN  IF sentry_header.some
        THEN [rl |-> update_from_sentry_header(r, sentry_header.v, t),
              calls |-> <<"update_from_sentry_header">>]
        ELSE IF retry_after.some
        THEN [rl |-> update_from_retry_after(r, retry_after.v, t),
              calls |-> <<"update_from_retry_after">>]
        ELSE IF response.status >= 400
        THEN [rl |-> update_from_429(r, t), calls |-> <<"update_from_429">>]
        ELSE [rl |-> r, calls |-> <<>>]

\* the if / else if / else if chain on the received response
UpdateRateLimiter(r, response, t) ==
    LET sentry_header == header_str(response, "x-sentry-rate-limits")
        retry_after == header_str(response, "retry-after")
    IN  IF sentry_header.some
        THEN [rl |-> update_from_sentry_header(r, sentry_header.v, t),
              calls |-> <<"update_from_sentry_header">>]
        ELSE IF retry_after.some
        THEN [rl |-> update_from_retry_after(r, retry_after.v, t),
              calls |-> <<"update_from_retry_after">>]
        ELSE IF response.status = TooManyRequests
        THEN [rl |-> update_from_429(r, t), calls |-> <<"update_from_429">>]
        ELSE [rl |-> r, calls |-> <<>>]

NoLast == [outcome |-> "none", env |-> 0, response |-> NoResponse,
           calls |-> <<>>, body |-> "none", at |-> 0]

\* the closure that does not wait for the request it issued
DeliverBeginDetached(e) ==
    IF e.ok
    THEN /\ posts' = Append(posts, [env |-> e, url |-> url, auth |-> auth,
                                    agent |-> agent])
         /\ inflight' = inflight \cup {e}
         /\ pc' = "idle"
         /\ UNCHANGED <<done, last>>
    ELSE /\ pc' = "panicked"
         /\ last' = [NoLast EXCEPT !.outcome = "panic", !.env = e.id, !.at = now]
         /\ UNCHANGED <<posts, inflight, done>>

\* the closure that posts with a freshly built default agent
DeliverBeginDefaultAgent(e) ==
    IF e.ok
    THEN /\ posts' = Append(posts, [env |-> e, url |-> url, auth |-> auth,
                                    agent |-> NoAgent])
         /\ inflight' = inflight \cup {e}
         /\ pc' = "posting"
         /\ UNCHANGED <<done, last>>
    ELSE /\ pc' = "panicked"
         /\ last' = [NoLast EXCEPT !.outcome = "panic", !.env = e.id, !.at = now]
         /\ UNCHANGED <<posts, inflight, done>>

\* the closure up to the blocking send: to_writer(..).unwrap(), then
\* agent.post(&url).header("X-Sentry-Auth", &auth).send(&body)
DeliverBegin(e) ==
    IF e.ok
    THEN /\ posts' = Append(posts, [env |-> e, url |-> url, auth |-> auth,
                                    agent |-> agent])
         /\ inflight' = inflight \cup {e}
         /\ pc' = "posting"
         /\ UNCHANGED <<done, last>>
    ELSE /\ pc' = "panicked"
         /\ last' = [NoLast EXCEPT !.outcome = "panic", !.env = e.id, !.at = now]
         /\ UNCHANGED <<posts, inflight, done>>

\* Ok(response) with the body read first and a read failure ending the
\* delivery before the Rate Limiter update
DeliverResponseBodyFirst(response) ==
    /\ inflight # {}
    /\ \E e \in inflight :
          LET u == IF response.bodyOk
                   THEN UpdateRateLimiter(rl, response, now)
                   ELSE [rl |-> rl, calls |-> <<>>]
          IN  /\ rl' = u.rl
              /\ last' = [outcome |-> "response", env |-> e.id,
                          response |-> response, calls |-> u.calls,
                          body |-> IF response.bodyOk THEN "read"
                                                      ELSE "read_failed",
                          at |-> now]
              /\ inflight' = inflight \ {e}
    /\ pc' = "idle"
    /\ done' = done + 1
    /\ UNCHANGED <<queue, nextId, accepted, dropped, posts, now>>
    /\ UNCHANGED ctorVars
    /\ UNCHANGED flushVars

\* Ok(response): Rate Limiter update, then the body is read
DeliverResponse(response) ==
    /\ inflight # {}
    /\ \E e \in inflight :
          LET u == UpdateRateLimiter(rl, response, now)
          IN  /\ rl' = u.rl
              /\ last' = [outcome |-> "response", env |-> e.id,
                          response |-> response, calls |-> u.calls,
                          body |-> IF response.bodyOk THEN "read"
                                                      ELSE "read_failed",
                          at |-> now]
              /\ inflight' = inflight \ {e}
    /\ pc' = "idle"
    /\ done' = done + 1
    /\ UNCHANGED <<queue, nextId, accepted, dropped, posts, now>>
    /\ UNCHANGED ctorVars
    /\ UNCHANGED flushVars

\* a failed request that is put back on the queue for another attempt
DeliverErrorRetry ==
    /\ inflight # {}
    /\ \E e \in inflight :
          /\ last' = [NoLast EXCEPT !.outcome = "failed", !.env = e.id,
                                    !.at = now]
          /\ inflight' = inflight \ {e}
          /\ queue' = Append(queue, e)
    /\ pc' = "idle"
    /\ done' = done + 1
    /\ UNCHANGED <<nextId, accepted, dropped, posts, rl, now>>
    /\ UNCHANGED ctorVars
    /\ UNCHANGED flushVars

\* a failed request that is treated like a bare 429
DeliverErrorBackoff ==
    /\ inflight # {}
    /\ \E e \in inflight :
          /\ last' = [NoLast EXCEPT !.outcome = "failed", !.env = e.id,
                                    !.at = now]
          /\ inflight' = inflight \ {e}
    /\ rl' = update_from_429(rl, now)
    /\ pc' = "idle"
    /\ done' = done + 1
    /\ UNCHANGED <<queue, nextId, accepted, dropped, posts, now>>
    /\ UNCHANGED ctorVars
    /\ UNCHANGED flushVars

\* Err(err): the failure is logged, nothing else
DeliverError ==
    /\ inflight # {}
    /\ \E e \in inflight :
          /\ last' = [NoLast EXCEPT !.outcome = "failed", !.env = e.id,
                                    !.at = now]
          /\ inflight' = inflight \ {e}
    /\ pc' = "idle"
    /\ done' = done + 1
    /\ UNCHANGED <<queue, nextId, accepted, dropped, posts, rl, now>>
    /\ UNCHANGED ctorVars
    /\ UNCHANGED flushVars

\* ------------------------------------------------------------------------
\* TransportThread (from the design)
\* ------------------------------------------------------------------------
\* enqueue: accepted, or rejected at capacity; never blocks
thread_send(e) ==
    IF Len(queue) < QueueCap
    THEN /\ queue' = Append(queue, e)
         /\ accepted' = accepted + 1
         /\ UNCHANGED dropped
    ELSE /\ dropped' = dropped \cup {e.id}
         /\ UNCHANGED <<queue, accepted>>

\* the worker loop: one envelope at a time, delivered synchronously
WorkerTake ==
    /\ phase = "built"
    /\ pc = "idle"
    /\ queue # <<>>
    /\ queue' = Tail(queue)
    /\ DeliverBegin(Head(queue))
    /\ UNCHANGED <<nextId, accepted, dropped, rl, now>>
    /\ UNCHANGED ctorVars
    /\ UNCHANGED flushVars

\* flush: remember the queue observed now and block
thread_flush(kind) ==
    /\ phase = "built"
    /\ flushPc = "none"
    /\ flushPc' = "waiting"
    /\ flushKind' = kind
    /\ flushTarget' = accepted
    /\ UNCHANGED <<lastFlush, shutdownReturned>>
    /\ UNCHANGED workerVars
    /\ UNCHANGED ctorVars
    /\ UNCHANGED <<rl, now, last>>

\* the boolean of TransportThread::flush: TRUE iff the worker acknowledged
thread_flush_result(how) == how = "ack"

\* a shutdown that reports success whatever the flush returned
TransportReturnShutdownTrue(kind, workerResult) ==
    IF kind = "shutdown" THEN TRUE ELSE workerResult

\* what flush and shutdown hand back: the result of thread.flush, unchanged
TransportReturn(kind, workerResult) == workerResult

FlushReturn(how) ==
    /\ flushPc' = "none"
    /\ lastFlush' = [kind |-> flushKind, how |-> how,
                     result |-> TransportReturn(flushKind,
                                                thread_flush_result(how)),
                     target |-> flushTarget, done |-> done,
                     alive |-> pc # "panicked"]
    /\ shutdownReturned' = (shutdownReturned \/ flushKind = "shutdown")
    /\ UNCHANGED <<flushKind, flushTarget>>
    /\ UNCHANGED workerVars
    /\ UNCHANGED ctorVars
    /\ UNCHANGED <<rl, now, last>>

\* the worker acknowledges once the queue observed at flush time is drained
FlushAck ==
    /\ flushPc = "waiting"
    /\ pc = "idle"
    /\ done >= flushTarget
    /\ FlushReturn("ack")

\* the timeout elapses first
FlushTimeout ==
    /\ flushPc = "waiting"
    /\ FlushReturn("timeout")

\* ------------------------------------------------------------------------
\* impl Transport for UreqHttpTransport
\* ------------------------------------------------------------------------
\* send_envelope: self.thread.send(envelope)
send_envelope(p, ok) ==
    /\ phase = "built"
    /\ nextId <= MaxEnvelopes
    /\ thread_send([id |-> nextId, from |-> p, ok |-> ok,
                    late |-> shutdownReturned])
    /\ nextId' = nextId + 1
    /\ UNCHANGED <<pc, inflight, posts, done, rl, now, last>>
    /\ UNCHANGED ctorVars
    /\ UNCHANGED flushVars

\* flush: self.thread.flush(timeout)
flush == thread_flush("flush")

\* shutdown: self.flush(timeout)
shutdown == thread_flush("shutdown")

\* ------------------------------------------------------------------------
\* Time
\* ------------------------------------------------------------------------
Tick ==
    /\ now < MaxTime
    /\ now' = now + 1
    /\ UNCHANGED <<rl, last>>
    /\ UNCHANGED workerVars
    /\ UNCHANGED ctorVars
    /\ UNCHANGED flushVars

\* ------------------------------------------------------------------------
\* Specifications
\* ------------------------------------------------------------------------
RunTimeInit ==
    /\ queue = <<>>
    /\ nextId = 1
    /\ accepted = 0
    /\ dropped = {}
    /\ pc = "idle"
    /\ inflight = {}
    /\ posts = <<>>
    /\ done = 0
    /\ rl = RateLimiterNew
    /\ now = 0
    /\ last = NoLast
    /\ flushPc = "none"
    /\ flushKind = "flush"
    /\ flushTarget = 0
    /\ lastFlush = [kind |-> "none", how |-> "none", result |-> FALSE,
                    target |-> 0,
                    done |-> 0, alive |-> TRUE]
    /\ shutdownReturned = FALSE

\* before construction: any options, any build
InitNew ==
    /\ options \in OptionSet
    /\ agentArg = NoneAgent
    /\ features \in FeatureSets
    /\ phase = "init"
    /\ agent = NoAgent
    /\ url = None
    /\ auth = None
    /\ invalidLogs = 0
    /\ RunTimeInit

NextNew == new \/ with_agent

SpecNew == InitNew /\ [][NextNew]_vars

\* the options of the transports observed at run time
RunOptions ==
    {o \in OptionSet : /\ o.dsn = DsnHttps
                       /\ o.http_proxy = None
                       /\ o.https_proxy = HttpsProxyOk
                       /\ ~o.accept_invalid_certs}

\* after construction with new
Init ==
    /\ options \in RunOptions
    /\ agentArg = NoneAgent
    /\ features = {"rustls"}
    /\ LET r == new_internal(options, NoneAgent, features)
       IN  /\ phase = r.phase
           /\ agent = r.agent
           /\ invalidLogs = r.logs
           /\ url = r.url
           /\ auth = r.auth
    /\ RunTimeInit

Next ==
    \/ \E p \in Producers, ok \in BOOLEAN : send_envelope(p, ok)
    \/ WorkerTake
    \/ \E r \in PlainResponses : DeliverResponse(r)
    \/ DeliverError
    \/ flush
    \/ shutdown
    \/ FlushAck
    \/ FlushTimeout

Spec == Init /\ [][Next]_vars

NextDeliver ==
    \/ \E ok \in BOOLEAN : send_envelope("p1", ok)
    \/ WorkerTake
    \/ \E r \in Responses : DeliverResponse(r)
    \/ DeliverError
    \/ Tick

SpecDeliver == Init /\ [][NextDeliver]_vars

\* ------------------------------------------------------------------------
\* Properties
\* ------------------------------------------------------------------------
\* the step in which the delivery closure returns after a received response
ResponseStep == done' = done + 1 /\ last'.outcome = "response"

\* the step in which the delivery closure returns after a failed request
FailureStep == done' = done + 1 /\ last'.outcome = "failed"

\* C1 (as stated): whenever the response carries an x-sentry-rate-limits
\* header, in whatever form, the only Rate Limiter call of the delivery is
\* update_from_sentry_header.
C1_AnySentryHeaderWins ==
    (last.outcome = "response" /\ last.response.sentry.st # "absent")
        => last.calls = <<"update_from_sentry_header">>

\* C1 (amended): whenever the response carries an x-sentry-rate-limits header
\* whose value is readable as a string, the delivery makes exactly one Rate
\* Limiter call, update_from_sentry_header with that value, whatever the
\* status and the retry-after header are; the Rate Limiter afterwards is the
\* old one with the header's entries merged, nothing else.
C1_ReadableSentryHeaderWins ==
    [][(ResponseStep /\ last'.response.sentry.st = "str") =>
          /\ last'.calls = <<"update_from_sentry_header">>
          /\ rl' = update_from_sentry_header(rl, last'.response.sentry.v, now)
      ]_vars

C1_Witness ==
    /\ last.outcome = "response"
    /\ last.response.sentry = HStr(LimitsExample)
    /\ last.response.retry = HStr(RetrySecs)
    /\ last.response.status = TooManyRequests
    /\ rl["error"] = last.at + 60
    /\ rl["transaction"] = last.at + 120
    /\ rl[Wildcard] = 0

\* C2: a response with status 429 and neither header makes exactly one Rate
\* Limiter call, update_from_429, and when the delivery returns the wildcard
\* category is limited (its reset instant is the default backoff from now).
C2_Bare429DefaultBackoff ==
    [][(/\ ResponseStep
        /\ last'.response.status = TooManyRequests
        /\ last'.response.sentry.st = "absent"
        /\ last'.response.retry.st = "absent") =>
          /\ last'.calls = <<"update_from_429">>
          /\ rl'[Wildcard] = now + DEFAULT_RETRY_AFTER
          /\ IsLimited(rl', Wildcard, now')
          /\ \A c \in Categories \ {Wildcard} : rl'[c] = rl[c]
      ]_vars

C2_Witness ==
    /\ last.outcome = "response"
    /\ last.response.status = TooManyRequests
    /\ last.response.sentry = HAbsent
    /\ last.response.retry = HAbsent
    /\ last.calls = <<"update_from_429">>
    /\ IsLimited(rl, Wildcard, now)
    /\ now > last.at

\* C3 (as stated): whenever the response has no x-sentry-rate-limits header
\* and carries a retry-after header, in whatever form, the only Rate Limiter
\* call of the delivery is update_from_retry_after.
C3_AnyRetryAfterWins ==
    (/\ last.outcome = "response"
     /\ last.response.sentry.st = "absent"
     /\ last.response.retry.st # "absent")
        => last.calls = <<"update_from_retry_after">>

\* C3 (amended): whenever the response has no x-sentry-rate-limits header and
\* carries a retry-after header whose value is readable as a string, the
\* delivery makes exactly one Rate Limiter call, update_from_retry_after: the
\* wildcard reset instant is set from the value, no other category changes and
\* the 429 default is not applied, even for status 429.
C3_ReadableRetryAfterWins ==
    [][(/\ ResponseStep
        /\ last'.response.sentry.st = "absent"
        /\ last'.response.retry.st = "str") =>
          /\ last'.calls = <<"update_from_retry_after">>
          /\ rl'[Wildcard] = IF last'.response.retry.v.kind = "secs"
                             THEN now + last'.response.retry.v.n
                             ELSE last'.response.retry.v.at
          /\ \A c \in Categories \ {Wildcard} : rl'[c] = rl[c]
      ]_vars

C3_Witness ==
    /\ last.outcome = "response"
    /\ last.response.sentry = HAbsent
    /\ last.response.retry = HStr(RetrySecs)
    /\ last.response.status = TooManyRequests
    /\ last.calls = <<"update_from_retry_after">>
    /\ rl[Wildcard] = last.at + 30

\* C4 (as stated): no envelope handed to send_envelope after a shutdown call
\* has returned is ever POSTed.
C4_NoPostAfterShutdown ==
    \A i \in 1..Len(posts) : ~posts[i].env.late

\* C5 (as stated): a serialization failure never stops the worker.
C5_WorkerSurvivesSerializationFailure ==
    pc # "panicked"

\* the precedence of the design: secure proxy for a secure scheme when valid,
\* else the general proxy when valid, else none
ExpectedProxy(scheme, http_proxy, https_proxy) ==
    IF scheme = "Https" /\ https_proxy # None /\ ProxyNew(https_proxy).ok
    THEN ProxyNew(https_proxy).proxy
    ELSE IF http_proxy # None /\ ProxyNew(http_proxy).ok
    THEN ProxyNew(http_proxy).proxy
    ELSE None

\* C6 (as stated): the agent built at construction uses the proxy given by
\* the three-step precedence with fall-through, an invalid string counting
\* as an absent one.
C6_ProxyPrecedenceWithFallThrough ==
    (phase = "built" /\ ~agent.supplied) =>
        agent.proxy = ExpectedProxy(Scheme(options.dsn), options.http_proxy,
                                    options.https_proxy)

\* C7: when the request fails at transport level the delivery leaves the
\* Rate Limiter as it was, issues no further request and does not put the
\* envelope back, and the closure returns: the worker is idle again with
\* nothing in flight.
C7_TransportFailureIsDropped ==
    [][FailureStep =>
          /\ rl' = rl
          /\ posts' = posts
          /\ queue' = queue
          /\ inflight' = {}
          /\ pc' = "idle"
          /\ last'.calls = <<>>
      ]_vars

C7_Witness ==
    /\ last.outcome = "failed"
    /\ pc = "posting"
    /\ Len(posts) = 2
    /\ posts[1].env.id = last.env
    /\ rl = RateLimiterNew

\* C8: the POSTs are issued in the order in which their envelopes were handed
\* to send_envelope: envelope ids grow strictly along the log of POSTs.
C8_PostsInEnqueueOrder ==
    \A i, j \in 1..Len(posts) :
        i < j => posts[i].env.id < posts[j].env.id

C8_Witness ==
    /\ Len(posts) = 3
    /\ posts[1].env.from # posts[2].env.from
    /\ last.outcome = "failed"
    /\ last.env = 2

\* C9: at most one delivery is in flight, and a delivery starts only when no
\* other is in flight, so the Rate Limiter update of a delivery is complete
\* before the next POST is issued.
C9_OneDeliveryInFlight ==
    [][/\ Cardinality(inflight') <= 1
       /\ (Len(posts') > Len(posts) => inflight = {})
       /\ (rl' # rl => (inflight # {} /\ inflight' = {}))
      ]_vars

C9_Witness ==
    /\ Cardinality(inflight) = 1
    /\ queue # <<>>
    /\ \E e \in inflight : queue[1].from # e.from
    /\ rl[Wildcard] > 0

\* C10 (as stated): a flush that returned true had every envelope enqueued
\* before it attempted, and a flush that returned false left the worker
\* intact.
C10_FlushContract ==
    lastFlush.kind # "none" =>
        /\ lastFlush.result => lastFlush.done >= lastFlush.target
        /\ ~lastFlush.result => lastFlush.alive

\* the options with both proxy settings removed
WithoutProxies(opts) == [opts EXCEPT !.http_proxy = None, !.https_proxy = None]

\* C11: an invalid proxy string never makes construction fail (construction
\* fails only without a DSN), and when a proxy option is invalid and none is
\* valid the agent, URL and auth value are those of the same construction
\* with no proxy option at all: no proxy is used.
C11_InvalidProxyIsNoProxy ==
    /\ phase = "panicked" => options.dsn = None
    /\ (/\ phase = "built"
        /\ ProxyBad \in {options.http_proxy, options.https_proxy}
        /\ ~ProxyNew(options.http_proxy).ok
        /\ ~ProxyNew(options.https_proxy).ok) =>
          LET r == new_internal(WithoutProxies(options), agentArg, features)
          IN  /\ agent = r.agent
              /\ url = r.url
              /\ auth = r.auth
              /\ ~agentArg.some => agent.proxy = None

C11_Witness ==
    /\ phase = "built"
    /\ ~agentArg.some
    /\ options.dsn = DsnHttps
    /\ options.https_proxy = ProxyBad
    /\ options.http_proxy = ProxyBad
    /\ agent.proxy = None
    /\ invalidLogs = 1

\* C13 (as stated): however the transport is constructed, with
\* accept_invalid_certs unset its agent verifies certificates.
C13_VerificationUnlessOptionSet ==
    (phase = "built" /\ ~options.accept_invalid_certs)
        => ~agent.tls.disable_verification

\* C13 (amended): for a transport constructed with new, certificate
\* verification is disabled only when accept_invalid_certs is set; with
\* accept_invalid_certs unset the agent verifies certificates. (With
\* with_agent the TLS setting is the supplied agent's own.)
C13_NewVerifiesUnlessOptionSet ==
    (phase = "built" /\ ~agentArg.some) =>
        (agent.tls.disable_verification => options.accept_invalid_certs)

C13_Witness ==
    /\ phase = "built"
    /\ ~agentArg.some
    /\ features = {"native-tls"}
    /\ ~options.accept_invalid_certs
    /\ agent.tls.provider = "NativeTls"
    /\ ~agent.tls.disable_verification

\* C17: a transport built with with_agent captures the supplied agent
\* unchanged, whatever the proxy and accept_invalid_certs options are, and
\* emits no "invalid proxy" diagnostic.
C17_SuppliedAgentUnchanged ==
    (phase = "built" /\ agentArg.some) =>
        /\ agent = agentArg.v
        /\ invalidLogs = 0

C17_Witness ==
    /\ phase = "built"
    /\ agentArg.some
    /\ options.dsn = DsnHttps
    /\ options.https_proxy = ProxyBad
    /\ options.http_proxy = HttpProxyOk
    /\ options.accept_invalid_certs
    /\ features = {"rustls"}
    /\ ~agent.tls.disable_verification
    /\ agent.proxy = "http://callers-proxy:8080"

\* C19: without a DSN construction never yields a transport: no URL, auth
\* value or worker exists, and neither send_envelope nor the worker can take
\* a step.
C19_NoDsnNoTransport ==
    options.dsn = None =>
        /\ phase # "built"
        /\ url = None /\ auth = None
        /\ queue = <<>> /\ posts = <<>> /\ accepted = 0
        /\ ~ENABLED (\E p \in Producers, ok \in BOOLEAN : send_envelope(p, ok))
        /\ ~ENABLED WorkerTake

C19_Witness ==
    /\ options.dsn = None
    /\ phase = "panicked"
    /\ agentArg.some

\* C12: a response with neither header and a status other than 429 makes no
\* Rate Limiter call and leaves the Rate Limiter as it was.
C12_PlainResponseLeavesRateLimiter ==
    [][(/\ ResponseStep
        /\ last'.response.sentry.st = "absent"
        /\ last'.response.retry.st = "absent"
        /\ last'.response.status # TooManyRequests) =>
          /\ last'.calls = <<>>
          /\ rl' = rl
      ]_vars

C12_Witness ==
    /\ last.outcome = "response"
    /\ last.response.sentry = HAbsent
    /\ last.response.retry = HAbsent
    /\ last.response.status = 500
    /\ last.calls = <<>>
    /\ rl[Wildcard] = DEFAULT_RETRY_AFTER
    /\ done = 2

\* number of envelopes the worker has taken from the queue
Taken == accepted - Len(queue)

\* C14 (as stated): every envelope taken from the queue has exactly one POST,
\* and every POST carries the URL, auth value and agent set at construction.
C14_OnePostPerTakenEnvelope ==
    /\ Len(posts) = Taken
    /\ \A i, j \in 1..Len(posts) : i # j => posts[i].env.id # posts[j].env.id
    /\ \A i \in 1..Len(posts) :
          /\ posts[i].url = url
          /\ posts[i].auth = auth
          /\ posts[i].agent = agent

\* C14 (amended): every envelope taken from the queue whose serialization
\* succeeds has exactly one POST (an envelope whose serialization fails has
\* none), and every POST carries the URL, auth value and agent resolved at
\* construction, whatever responses, failures and Rate Limiter updates came
\* before.
C14_OnePostPerSerializedEnvelope ==
    LET r == new_internal(options, agentArg, features)
    IN  /\ Len(posts) = done + Cardinality(inflight)
        /\ Taken = Len(posts) + (IF pc = "panicked" THEN 1 ELSE 0)
        /\ \A i, j \in 1..Len(posts) :
              i # j => posts[i].env.id # posts[j].env.id
        /\ \A i \in 1..Len(posts) :
              /\ posts[i].env.ok
              /\ posts[i].url = r.url
              /\ posts[i].auth = r.auth
              /\ posts[i].agent = r.agent

C14_Witness ==
    /\ Len(posts) = 3
    /\ done = 2
    /\ rl[Wildcard] > 0
    /\ last.outcome = "failed"
    /\ posts[3].agent.proxy = HttpsProxyOk
    /\ posts[3].url = <<"envelope_api_url", DsnHttps>>

\* C15: on every received response the body is read, and the outcome of the
\* read changes nothing else: the Rate Limiter update is the one the same
\* response gets with a readable body, and the closure returns with the
\* worker idle.
C15_BodyReadAfterUpdate ==
    [][ResponseStep =>
          LET resp == last'.response
              u == UpdateRateLimiter(rl, [resp EXCEPT !.bodyOk = TRUE], now)
          IN  /\ last'.body = IF resp.bodyOk THEN "read" ELSE "read_failed"
              /\ rl' = u.rl
              /\ last'.calls = u.calls
              /\ pc' = "idle"
              /\ inflight' = {}
      ]_vars

C15_Witness ==
    /\ last.outcome = "response"
    /\ last.body = "read_failed"
    /\ last.response.sentry = HStr(LimitsExample)
    /\ rl["error"] = last.at + 60
    /\ pc = "posting"
    /\ Len(posts) = 2

\* C16: what flush and shutdown return is the result of the worker's flush:
\* true exactly when the worker acknowledged before the timeout, in which
\* case every envelope accepted before the call has been attempted.
C16_FacadeReturnsWorkerResult ==
    lastFlush.kind # "none" =>
        /\ lastFlush.result <=> lastFlush.how = "ack"
        /\ lastFlush.result => lastFlush.done >= lastFlush.target

C16_Witness ==
    /\ lastFlush.kind = "shutdown"
    /\ ~lastFlush.result
    /\ lastFlush.how = "timeout"
    /\ lastFlush.target = 2
    /\ lastFlush.done = 1
    /\ dropped # {}

\* C18: a header that is present but not readable as a string counts as
\* absent: an unreadable x-sentry-rate-limits leaves the choice to retry-after
\* and the status, an unreadable retry-after leaves it to the status, and a
\* response never gets more than one Rate Limiter call.
C18_UnreadableHeaderIsAbsent ==
    [][ResponseStep =>
          LET resp == last'.response
              byStatus == IF resp.status = TooManyRequests
                          THEN <<"update_from_429">> ELSE <<>>
          IN  /\ Len(last'.calls) <= 1
              /\ (resp.sentry.st = "bytes" /\ resp.retry.st = "str")
                    => last'.calls = <<"update_from_retry_after">>
              /\ (resp.sentry.st = "bytes" /\ resp.retry.st # "str")
                    => last'.calls = byStatus
              /\ (resp.sentry.st = "absent" /\ resp.retry.st = "bytes")
                    => last'.calls = byStatus
              /\ last'.calls = <<>> => rl' = rl
      ]_vars

C18_Witness ==
    /\ last.outcome = "response"
    /\ last.response.sentry = HBytes
    /\ last.response.retry = HBytes
    /\ last.response.status = TooManyRequests
    /\ last.calls = <<"update_from_429">>
    /\ rl[Wildcard] = last.at + DEFAULT_RETRY_AFTER

====
